---- MODULE Spec2Model ----
(***************************************************************************)
(* ItemPriceTracker: the cost amortization and analytics engine            *)
(* (useStatistics, HomeView.calculateDailyCost, lib/utils, lib/helpers),   *)
(* the consumption heatmap (components/Heatmap) and the backups of lib/db. *)
(*                                                                         *)
(* Time is counted in ticks since 2023-01-01T00:00Z, TicksPerDay ticks to  *)
(* a day.  A date string "YYYY-MM-DD" is its day number since 2023-01-01.  *)
(* Amounts are exact rationals [n, d] in lowest terms with d > 0.          *)
(***************************************************************************)
EXTENDS Integers, Sequences, FiniteSets, TLC

\* undefined / null of an optional number or date string; no number or day
\* of the model reaches it
None == -1000000

\* an absent category (item.category undefined); no category name is this
\* string
NoCategory == "undefined"

\* ---------------------------------------------------------------- bounds
TicksPerDay == 2
MaxItems == 2
MaxDays == 2
MaxSnapshots == 1
MaxInvocations == 3
MaxTimers == 3
MaxPending == 2

\* ------------------------------------------------------------- rationals
Abs(x) == IF x < 0 THEN -x ELSE x

RECURSIVE GCD(_, _)
GCD(a, b) == IF b = 0 THEN a ELSE GCD(b, a % b)

Rat(num, den) ==
  LET s == IF den < 0 THEN -1 ELSE 1
      g == GCD(Abs(num), Abs(den))
  IN  [n |-> (s * num) \div g, d |-> (s * den) \div g]

R(i) == [n |-> i, d |-> 1]
RAdd(x, y) == Rat(x.n * y.d + y.n * x.d, x.d * y.d)
RSub(x, y) == Rat(x.n * y.d - y.n * x.d, x.d * y.d)
RMul(x, y) == Rat(x.n * y.n, x.d * y.d)
RDiv(x, y) == Rat(x.n * y.d, x.d * y.n)
RPos(x) == x.n > 0

\* Math.ceil(a / b) for b > 0
CeilDiv(a, b) == -((-a) \div b)

\* -------------------------------------------------------------- calendar
IsLeap(y) == (y % 4 = 0 /\ y % 100 # 0) \/ y % 400 = 0

DaysInMonth(y, m) ==
  IF m = 2 THEN (IF IsLeap(y) THEN 29 ELSE 28)
  ELSE IF m \in {4, 6, 9, 11} THEN 30 ELSE 31

\* absolute month index: year * 12 + (month - 1)
EpochAM == 2023 * 12
LastAM == 2025 * 12 + 11

\* the day numbers of the first days of the months from EpochAM on, in order
RECURSIVE MonthStarts(_, _)
MonthStarts(starts, am) ==
  IF am > LastAM + 1 THEN starts
  ELSE MonthStarts(Append(starts, starts[Len(starts)]
                            + DaysInMonth((am - 1) \div 12, ((am - 1) % 12) + 1)),
                   am + 1)

MonthStartList == MonthStarts(<<0>>, EpochAM + 1)

\* day number of the first day of each absolute month
MonthStart == [am \in EpochAM..(LastAM + 1) |-> MonthStartList[am - EpochAM + 1]]

\* day number of the calendar date y-m-d (m in 1..12)
Ymd(y, m, d) == MonthStart[y * 12 + (m - 1)] + (d - 1)

\* the absolute month of every day number from 0 on, in order
RECURSIVE MonthsOfDays(_, _)
MonthsOfDays(months, am) ==
  IF am > LastAM THEN months
  ELSE MonthsOfDays(months \o [d \in 1..DaysInMonth(am \div 12, (am % 12) + 1) |-> am],
                    am + 1)

MonthOfDayList == MonthsOfDays(<< >>, EpochAM)

\* the absolute month a day number falls in
MonthOfDay(day) == MonthOfDayList[day + 1]

\* a date string with a time of day ("YYYY-MM-DDTHH:mm:ss.sssZ") is held as
\* its instant above TimestampTag, a date-only string as its day number
TimestampTag == 1000000
Timestamp(t) == TimestampTag + t

\* new Date(string).getTime(): a date-only string is UTC midnight, a string
\* with a time of day is that instant
NewDate(dateStr) ==
  IF dateStr >= TimestampTag THEN dateStr - TimestampTag ELSE dateStr * TicksPerDay

\* d.toISOString().split('T')[0]: the UTC calendar day of a timestamp
formatDate(t) == t \div TicksPerDay

\* new Date(year, monthIndex, day).getTime(): local midnight of a date whose
\* month index and day may overflow (monthIndex -1, day 0); tz is the
\* device's UTC offset in ticks (local = UTC + tz)
NewLocalDate(year, monthIndex, day, tz) ==
  (MonthStart[year * 12 + monthIndex] + (day - 1)) * TicksPerDay - tz

\* now.getFullYear() * 12 + now.getMonth() in local time
LocalMonth(t, tz) == MonthOfDay((t + tz) \div TicksPerDay)

\* d.setDate(d.getDate() + n): n local calendar days later (fixed UTC offset)
AddDays(t, n) == t + n * TicksPerDay

\* ------------------------------------------------------- lib/utils.ts
\* JavaScript truthiness of an optional number
Truthy(x) == x # None /\ x # 0

\* faulty variant: divides by whichever divisor is present, whatever the type
calculateUnitPrice_anyDivisor(totalCost, quantity, calculationType, totalUses, usageDays) ==
  IF totalCost <= 0 THEN R(0)
  ELSE IF Truthy(totalUses) /\ totalUses > 0 THEN Rat(totalCost, totalUses)
  ELSE IF Truthy(usageDays) /\ usageDays > 0 THEN Rat(totalCost, usageDays)
  ELSE R(totalCost)

\* faulty variant: the price of one purchased unit
calculateUnitPrice_perUnit(totalCost, quantity, calculationType, totalUses, usageDays) ==
  IF totalCost <= 0 THEN R(0)
  ELSE IF calculationType = "perUse" /\ Truthy(totalUses) /\ totalUses > 0
       THEN Rat(totalCost, totalUses * quantity)
  ELSE IF calculationType = "perDay" /\ Truthy(usageDays) /\ usageDays > 0
       THEN Rat(totalCost, usageDays * quantity)
  ELSE Rat(totalCost, quantity)

calculateUnitPrice(totalCost, quantity, calculationType, totalUses, usageDays) ==
  IF totalCost <= 0 THEN R(0)
  ELSE IF calculationType = "perUse" /\ Truthy(totalUses) /\ totalUses > 0
       THEN Rat(totalCost, totalUses)
  ELSE IF calculationType = "perDay" /\ Truthy(usageDays) /\ usageDays > 0
       THEN Rat(totalCost, usageDays)
  ELSE R(totalCost)

\* utils.calculateEndDate: null, or the date string of start + usageDays * 24h
calculateEndDate(purchaseDate, usageDays) ==
  IF ~Truthy(usageDays) \/ usageDays <= 0 THEN None
  ELSE formatDate(NewDate(purchaseDate) + usageDays * TicksPerDay)

getRemainingDays(endDate, now) ==
  CeilDiv(NewDate(endDate) - now, TicksPerDay)

\* utils.getDaysDifference: ceil of the difference in days, plus one
getDaysDifference(startDate, endDate) ==
  CeilDiv(NewDate(endDate) - NewDate(startDate), TicksPerDay) + 1

getMonthRange(year, month, tz) ==
  [start |-> formatDate(NewLocalDate(year, month - 1, 1, tz)),
   end   |-> formatDate(NewLocalDate(year, month, 0, tz))]

calculateGrowthRate(current, previous) ==
  IF previous = R(0) THEN (IF RPos(current) THEN R(100) ELSE R(0))
  ELSE RMul(RDiv(RSub(current, previous), previous), R(100))

\* ----------------------------------------------------- lib/helpers.ts
helpers_calculateUnitPrice(totalCost, quantity, calculationType, totalUses, usageDays) ==
  IF totalCost <= 0 THEN R(0)
  ELSE IF calculationType = "perUse" /\ Truthy(totalUses) /\ totalUses > 0
       THEN Rat(totalCost, totalUses)
  ELSE IF calculationType = "perDay" /\ Truthy(usageDays) /\ usageDays > 0
       THEN Rat(totalCost, usageDays)
  ELSE R(totalCost)

\* helpers.calculateEndDate: setDate(getDate() + usageDays), then formatDate
helpers_calculateEndDate(purchaseDate, usageDays) ==
  IF ~Truthy(usageDays) \/ usageDays <= 0 THEN None
  ELSE formatDate(AddDays(NewDate(purchaseDate), usageDays))

helpers_getRemainingDays(endDate, now) ==
  CeilDiv(NewDate(endDate) - now, TicksPerDay)

helpers_calculateGrowthRate(current, previous) ==
  IF previous = R(0) THEN (IF RPos(current) THEN R(100) ELSE R(0))
  ELSE RMul(RDiv(RSub(current, previous), previous), R(100))

\* faulty variant: an item whose remaining days are 0 still counts as expiring
isItemExpiring_inclusive(item, daysBefore, now) ==
  IF ~Truthy(item.usageDays) \/ item.status # "active" THEN FALSE
  ELSE LET endDate == helpers_calculateEndDate(item.purchaseDate, item.usageDays)
       IN  IF endDate = None THEN FALSE
           ELSE LET remaining == helpers_getRemainingDays(endDate, now)
                IN  remaining >= 0 /\ remaining <= daysBefore

isItemExpiring(item, daysBefore, now) ==
  IF ~Truthy(item.usageDays) \/ item.status # "active" THEN FALSE
  ELSE LET endDate == helpers_calculateEndDate(item.purchaseDate, item.usageDays)
       IN  IF endDate = None THEN FALSE
           ELSE LET remaining == helpers_getRemainingDays(endDate, now)
                IN  remaining > 0 /\ remaining <= daysBefore

isItemExpired(item, now) ==
  IF ~Truthy(item.usageDays) \/ item.status # "active" THEN FALSE
  ELSE LET endDate == helpers_calculateEndDate(item.purchaseDate, item.usageDays)
       IN  IF endDate = None THEN FALSE
           ELSE helpers_getRemainingDays(endDate, now) <= 0

\* ------------------------------------------------- hooks/useStatistics.ts
\* items.filter(pred).length and friends are folds over the item array
RECURSIVE SumTotalCost(_)
SumTotalCost(itemList) ==
  IF itemList = << >> THEN 0
  ELSE Head(itemList).totalCost + SumTotalCost(Tail(itemList))

RECURSIVE CountStatus(_, _)
CountStatus(itemList, status) ==
  IF itemList = << >> THEN 0
  ELSE (IF Head(itemList).status = status THEN 1 ELSE 0)
       + CountStatus(Tail(itemList), status)

\* faulty variant: items with unit price 0 are counted in the mean
RECURSIVE UnitPriceLoop_countAll(_, _)
UnitPriceLoop_countAll(itemList, acc) ==
  IF itemList = << >> THEN acc
  ELSE LET item == Head(itemList)
           unitPrice == calculateUnitPrice(item.totalCost, item.quantity,
                          item.calculationType, item.totalUses, item.usageDays)
       IN  UnitPriceLoop_countAll(Tail(itemList),
             [total |-> RAdd(acc.total, unitPrice), count |-> acc.count + 1])

\* the forEach of useStatistics.ts:18-30: acc is [total, count]
RECURSIVE UnitPriceLoop(_, _)
UnitPriceLoop(itemList, acc) ==
  IF itemList = << >> THEN acc
  ELSE LET item == Head(itemList)
           unitPrice == calculateUnitPrice(item.totalCost, item.quantity,
                          item.calculationType, item.totalUses, item.usageDays)
       IN  UnitPriceLoop(Tail(itemList),
             IF RPos(unitPrice)
             THEN [total |-> RAdd(acc.total, unitPrice), count |-> acc.count + 1]
             ELSE acc)

\* faulty variant: items already past their end date are counted too
ExpiringSoon_noLowerBound(item, now) ==
  IF ~Truthy(item.usageDays) \/ item.usageDays <= 0 THEN FALSE
  ELSE LET endDate == AddDays(NewDate(item.purchaseDate), item.usageDays)
           remaining == CeilDiv(endDate - now, TicksPerDay)
       IN  remaining <= 3

\* the filter predicate of useStatistics.ts:35-41 (the caller passes active items)
ExpiringSoon(item, now) ==
  IF ~Truthy(item.usageDays) \/ item.usageDays <= 0 THEN FALSE
  ELSE LET endDate == AddDays(NewDate(item.purchaseDate), item.usageDays)
           remaining == CeilDiv(endDate - now, TicksPerDay)
       IN  remaining > 0 /\ remaining <= 3

RECURSIVE CountExpiring(_, _)
CountExpiring(itemList, now) ==
  IF itemList = << >> THEN 0
  ELSE (IF Head(itemList).status = "active" /\ ExpiringSoon(Head(itemList), now)
        THEN 1 ELSE 0)
       + CountExpiring(Tail(itemList), now)

Statistics(itemList, now) ==
  LET acc == UnitPriceLoop(itemList, [total |-> R(0), count |-> 0])
  IN  [totalCost        |-> SumTotalCost(itemList),
       itemCount        |-> Len(itemList),
       averageUnitPrice |-> IF acc.count > 0 THEN RDiv(acc.total, R(acc.count)) ELSE R(0),
       activeItems      |-> CountStatus(itemList, "active"),
       finishedItems    |-> CountStatus(itemList, "finished"),
       expiringItems    |-> CountExpiring(itemList, now)]

\* dailyCosts: Record<string, number>, kept as its entries <<dateStr, amount>>
\* in insertion order (the order Object.values returns them in)
HasKey(dailyCosts, dateStr) ==
  \E i \in DOMAIN dailyCosts : dailyCosts[i][1] = dateStr

KeyIndex(dailyCosts, dateStr) ==
  CHOOSE i \in DOMAIN dailyCosts : dailyCosts[i][1] = dateStr

\* if (!dailyCosts[dateStr]) dailyCosts[dateStr] = 0; dailyCosts[dateStr] += dailyCost
AddDailyCost(dailyCosts, dateStr, dailyCost) ==
  IF HasKey(dailyCosts, dateStr)
  THEN LET i == KeyIndex(dailyCosts, dateStr)
       IN  [dailyCosts EXCEPT ![i] = <<dateStr, RAdd(dailyCosts[i][2], dailyCost)>>]
  ELSE Append(dailyCosts, <<dateStr, RAdd(R(0), dailyCost)>>)

\* faulty variant: the loop stops before itemEnd (d < itemEnd)
RECURSIVE DayLoop_exclusiveEnd(_, _, _, _, _, _)
DayLoop_exclusiveEnd(d, itemEnd, start, end, dailyCost, dailyCosts) ==
  IF ~(d < itemEnd) THEN dailyCosts
  ELSE LET dateStr == formatDate(d)
           next == IF d >= start /\ d <= end
                   THEN AddDailyCost(dailyCosts, dateStr, dailyCost)
                   ELSE dailyCosts
       IN  IF next = << >> \/ next[Len(next)][2].d > 0
           THEN DayLoop_exclusiveEnd(AddDays(d, 1), itemEnd, start, end, dailyCost, next)
           ELSE next

\* the for loop of useStatistics.ts:76-83 for one item: d runs from itemStart
\* to itemEnd in steps of one day; each step's map is evaluated before the next
RECURSIVE DayLoop(_, _, _, _, _, _)
DayLoop(d, itemEnd, start, end, dailyCost, dailyCosts) ==
  IF ~(d <= itemEnd) THEN dailyCosts
  ELSE LET dateStr == formatDate(d)
           next == IF d >= start /\ d <= end
                   THEN AddDailyCost(dailyCosts, dateStr, dailyCost)
                   ELSE dailyCosts
       IN  IF next = << >> \/ next[Len(next)][2].d > 0
           THEN DayLoop(AddDays(d, 1), itemEnd, start, end, dailyCost, next)
           ELSE next

\* faulty variant: an item without usageDays is given a window of one day
RECURSIVE ItemLoop_dayWindow(_, _, _, _)
ItemLoop_dayWindow(itemList, start, end, dailyCosts) ==
  IF itemList = << >> THEN dailyCosts
  ELSE LET item == Head(itemList)
           usageDays == IF ~Truthy(item.usageDays) \/ item.usageDays <= 0 THEN 1
                        ELSE item.usageDays
           itemStart == NewDate(item.purchaseDate)
           itemEnd == itemStart + usageDays * TicksPerDay
           dailyCost == Rat(item.totalCost, usageDays)
       IN  ItemLoop_dayWindow(Tail(itemList), start, end,
             DayLoop(itemStart, itemEnd, start, end, dailyCost, dailyCosts))

\* the itemList.forEach of useStatistics.ts:65-84
RECURSIVE ItemLoop(_, _, _, _)
ItemLoop(itemList, start, end, dailyCosts) ==
  IF itemList = << >> THEN dailyCosts
  ELSE LET item == Head(itemList)
       IN  IF ~Truthy(item.usageDays) \/ item.usageDays <= 0
           THEN ItemLoop(Tail(itemList), start, end, dailyCosts)
           ELSE LET itemStart == NewDate(item.purchaseDate)
                    itemEnd == itemStart + item.usageDays * TicksPerDay
                    dailyCost == Rat(item.totalCost, item.usageDays)
                IN  ItemLoop(Tail(itemList), start, end,
                      DayLoop(itemStart, itemEnd, start, end, dailyCost, dailyCosts))

\* Object.values(dailyCosts).reduce((sum, cost) => sum + cost, 0); each
\* partial sum is evaluated before the next entry is added
RECURSIVE SumValues(_, _)
SumValues(dailyCosts, sum) ==
  IF dailyCosts = << >> THEN sum
  ELSE LET next == RAdd(sum, Head(dailyCosts)[2])
       IN  IF next.d > 0 THEN SumValues(Tail(dailyCosts), next) ELSE next

calculateMonthlyAllocatedCost(startDate, endDate, itemList) ==
  SumValues(ItemLoop(itemList, NewDate(startDate), NewDate(endDate), << >>), R(0))

\* faulty variant: the growth rate comes from calculateGrowthRate
MonthlyComparison_helperRate(itemList, now, tz) ==
  LET am == LocalMonth(now, tz)
      year == am \div 12
      month == am % 12
      currentMonth == getMonthRange(year, month + 1, tz)
      lastMonth == getMonthRange(year, month, tz)
      today == formatDate(now)
      currentCost == calculateMonthlyAllocatedCost(currentMonth.start, today, itemList)
      lastCost == calculateMonthlyAllocatedCost(lastMonth.start, lastMonth.end, itemList)
  IN  [current    |-> currentCost,
       last       |-> lastCost,
       growthRate |-> calculateGrowthRate(currentCost, lastCost)]

MonthlyComparison(itemList, now, tz) ==
  LET am == LocalMonth(now, tz)
      year == am \div 12
      month == am % 12
      currentMonth == getMonthRange(year, month + 1, tz)
      lastMonth == getMonthRange(year, month, tz)
      today == formatDate(now)
      currentCost == calculateMonthlyAllocatedCost(currentMonth.start, today, itemList)
      lastCost == calculateMonthlyAllocatedCost(lastMonth.start, lastMonth.end, itemList)
  IN  [current    |-> currentCost,
       last       |-> lastCost,
       growthRate |-> IF RPos(lastCost)
                      THEN RMul(RDiv(RSub(currentCost, lastCost), lastCost), R(100))
                      ELSE R(0)]

\* ---------------------------------------------------- sections/HomeView.tsx
\* the reduce callback of HomeView.tsx:100-110, folded left to right
RECURSIVE DailyCostReduce(_, _, _)
DailyCostReduce(itemList, today, sum) ==
  IF itemList = << >> THEN sum
  ELSE LET item == Head(itemList)
           endDate == calculateEndDate(item.purchaseDate, item.usageDays)
           next ==
             IF ~Truthy(item.usageDays) THEN sum
             ELSE IF endDate = None \/ endDate < today THEN sum
             ELSE LET daysDifference == getDaysDifference(item.purchaseDate, endDate)
                  IN  IF daysDifference <= 0 THEN sum
                      ELSE RAdd(sum, Rat(item.totalCost, daysDifference))
       IN  DailyCostReduce(Tail(itemList), today, next)

calculateDailyCost(itemList, now) ==
  DailyCostReduce(itemList, formatDate(now), R(0))

\* ------------------------------- useStatistics: categoryStatistics, trendData
\* the label of items without a category
Uncategorized == "uncategorized"

\* faulty variant: only an absent category falls back (item.category ?? label)
CategoryOf_nullish(item) ==
  IF item.category = NoCategory THEN Uncategorized ELSE item.category

\* item.category || label
CategoryOf(item) ==
  IF item.category = NoCategory \/ item.category = "" THEN Uncategorized
  ELSE item.category

\* categoryMap: Map<string, {count, totalCost}>, kept as its entries in
\* insertion order
HasCategory(categoryMap, category) ==
  \E i \in DOMAIN categoryMap : categoryMap[i].category = category

\* the items.forEach of categoryStatistics
RECURSIVE CategoryLoop(_, _)
CategoryLoop(itemList, categoryMap) ==
  IF itemList = << >> THEN categoryMap
  ELSE LET item == Head(itemList)
           category == CategoryOf(item)
           withKey == IF HasCategory(categoryMap, category) THEN categoryMap
                      ELSE Append(categoryMap,
                             [category |-> category, count |-> 0, totalCost |-> 0])
           i == CHOOSE k \in DOMAIN withKey : withKey[k].category = category
       IN  CategoryLoop(Tail(itemList),
             [withKey EXCEPT ![i].count = @ + 1,
                             ![i].totalCost = @ + item.totalCost])

\* faulty variant: the map starts with a bucket for the items without category
CategoryStatistics_seeded(itemList) ==
  LET categoryMap == CategoryLoop(itemList,
                       <<[category |-> Uncategorized, count |-> 0, totalCost |-> 0]>>)
      totalItems == Len(itemList)
      totalCost == SumTotalCost(itemList)
  IN  [i \in DOMAIN categoryMap |->
         [category       |-> categoryMap[i].category,
          count          |-> categoryMap[i].count,
          totalCost      |-> categoryMap[i].totalCost,
          percentage     |-> IF totalItems > 0
                             THEN RMul(Rat(categoryMap[i].count, totalItems), R(100))
                             ELSE R(0),
          costPercentage |-> IF totalCost > 0
                             THEN RMul(Rat(categoryMap[i].totalCost, totalCost), R(100))
                             ELSE R(0)]]

CategoryStatistics(itemList) ==
  LET categoryMap == CategoryLoop(itemList, << >>)
      totalItems == Len(itemList)
      totalCost == SumTotalCost(itemList)
  IN  [i \in DOMAIN categoryMap |->
         [category       |-> categoryMap[i].category,
          count          |-> categoryMap[i].count,
          totalCost      |-> categoryMap[i].totalCost,
          percentage     |-> IF totalItems > 0
                             THEN RMul(Rat(categoryMap[i].count, totalItems), R(100))
                             ELSE R(0),
          costPercentage |-> IF totalCost > 0
                             THEN RMul(Rat(categoryMap[i].totalCost, totalCost), R(100))
                             ELSE R(0)]]

\* date.setMonth(k) on the instant t: the local calendar date keeps its year,
\* its day of the month and its time of day, the month index becomes k (it may
\* be negative); a day the month does not have runs over into the next month
SetMonth(t, k, tz) ==
  LET localDay == (t + tz) \div TicksPerDay
      am == MonthOfDay(localDay)
      dayOfMonth == localDay - MonthStart[am] + 1
      target == (am \div 12) * 12 + k
  IN  t + ((MonthStart[target] + dayOfMonth - 1) - localDay) * TicksPerDay

\* the months "YYYY-MM" of the trailing n months: date = new Date();
\* date.setMonth(now.getMonth() - i) for i = n - 1 down to 0
LastMonths(n, now, tz) ==
  [j \in 1..n |-> LocalMonth(SetMonth(now, (LocalMonth(now, tz) % 12) - (n - j), tz), tz)]

\* trendData: a month "YYYY-MM" is its absolute month index
TrendData(itemList, now, tz) ==
  LET months == LastMonths(6, now, tz)
  IN  [j \in 1..6 |->
         LET inMonth(item) == LocalMonth(NewDate(item.purchaseDate), tz) = months[j]
             monthItems == SelectSeq(itemList, inMonth)
         IN  [date  |-> months[j],
              cost  |-> SumTotalCost(monthItems),
              count |-> Len(monthItems)]]

\* ------------------------------------------------- components/Heatmap.tsx
\* the date strings of the last 30 days: setDate(today.getDate() - i), then
\* toISOString().split('T')[0]
generateLast30Days(now) ==
  [j \in 1..30 |-> formatDate(AddDays(now, -(30 - j)))]

generateLast12Months(now, tz) == LastMonths(12, now, tz)

\* item.purchaseDate.substring(0, 7)
MonthOfDate(dateStr) == MonthOfDay(dateStr)

\* the sum of totalCost of the items bought on the date / in the month
AmountOnDate(itemList, dateStr) ==
  LET onDate(item) == item.purchaseDate = dateStr
  IN  SumTotalCost(SelectSeq(itemList, onDate))

AmountInMonth(itemList, month) ==
  LET inMonth(item) == MonthOfDate(item.purchaseDate) = month
  IN  SumTotalCost(SelectSeq(itemList, inMonth))

\* faulty variant: the days of the month are counted from 0 (day 0 is the
\* last day of the month before, the last day is missing)
generateDaysInMonth_fromZero(month, itemList) ==
  LET daysInMonth == DaysInMonth(month \div 12, (month % 12) + 1)
  IN  [day \in 1..daysInMonth |->
         LET dateStr == MonthStart[month] + (day - 2)
         IN  [date   |-> dateStr,
              amount |-> IF MonthOfDate(dateStr) = month
                         THEN AmountOnDate(itemList, dateStr) ELSE 0]]

\* one bucket per day 1..daysInMonth; an item is added to the bucket of its
\* purchase date when that date starts with the month
generateDaysInMonth(month, itemList) ==
  LET daysInMonth == DaysInMonth(month \div 12, (month % 12) + 1)
  IN  [day \in 1..daysInMonth |->
         LET dateStr == MonthStart[month] + (day - 1)
         IN  [date   |-> dateStr,
              amount |-> IF MonthOfDate(dateStr) = month
                         THEN AmountOnDate(itemList, dateStr) ELSE 0]]

DailyData(itemList, now) ==
  LET last30Days == generateLast30Days(now)
  IN  [j \in 1..30 |-> [date   |-> last30Days[j],
                        amount |-> AmountOnDate(itemList, last30Days[j])]]

MonthlyData(itemList, now, tz) ==
  LET last12Months == generateLast12Months(now, tz)
  IN  [j \in 1..12 |-> [date   |-> last12Months[j],
                        amount |-> AmountInMonth(itemList, last12Months[j])]]

SelectedMonthDays(month, itemList) ==
  IF month = None THEN << >> ELSE generateDaysInMonth(month, itemList)

Amounts(data) == {data[j].amount : j \in DOMAIN data}
Min(S) == CHOOSE x \in S : \A y \in S : x <= y
Max(S) == CHOOSE x \in S : \A y \in S : x >= y

\* amountRange: Math.min / Math.max over the amounts of the series shown
AmountRange(currentData) ==
  LET amounts == Amounts(currentData)
  IN  [min |-> Min(amounts), max |-> Max(amounts)]

SelectedMonthAmountRange(days) ==
  IF Len(days) = 0 THEN [min |-> 0, max |-> 0]
  ELSE LET amounts == Amounts(days)
       IN  [min |-> Min(amounts), max |-> Max(amounts)]

getColorIntensity(amount, range) ==
  IF range.max = range.min THEN R(0)
  ELSE Rat(amount - range.min, range.max - range.min)

\* ------------------------------------------------------------ the state
VARIABLES
  items,   \* useItems' item array = getAll('items'): the store in key order
  now,     \* the device clock, in ticks
  tz,      \* the device's UTC offset, in ticks
  call,    \* the last direct call of a function or handler, with its result
  viewMode,       \* Heatmap: 'daily' | 'monthly'
  selectedMonth,  \* Heatmap: the absolute month drilled into, or None
  settings,       \* getAll('settings'): the store in key order
  reminders,      \* getAll('reminders'): the store in key order
  backups,        \* localStorage 'item-manager-backups', parsed
  throttled,      \* the closure throttle() returned, and func's invocations
  debounced,      \* the closure debounce() returned, and func's invocations
  currentView,    \* App: the view shown
  selectedItem,   \* App: the item of the detail view, or NoItem
  editingItem,    \* App: the item being edited, or NoItem
  pending,        \* App: the handlers waiting for the database
  themeState,     \* useTheme: themeState.theme
  resolvedTheme,  \* useTheme: 'light' | 'dark'
  isThemeLoaded,  \* useTheme: the load has finished
  isMountedRef,   \* useTheme: isMountedRef.current
  prefersDark,    \* matchMedia('(prefers-color-scheme: dark)').matches
  preferences,    \* Preferences: the theme stored under THEME_KEY, or None
  loadTheme       \* useTheme: where loadTheme is, and whether a read succeeded

heatmapVars == <<viewMode, selectedMonth>>
backupVars == <<settings, reminders, backups>>
timerVars == <<throttled, debounced>>
appVars == <<currentView, selectedItem, editingItem, pending>>
themeVars == <<themeState, resolvedTheme, isThemeLoaded, isMountedRef, prefersDark, preferences, loadTheme>>

\* the state of the helpers and hooks that hold no items
otherVars == <<timerVars, appVars, themeVars>>

\* what the item handlers and the library calls leave alone
outsideItems == <<heatmapVars, backupVars, otherVars>>

vars == <<items, now, tz, call, heatmapVars, backupVars, otherVars>>

NoCall == [op |-> "none"]

\* useState<Item | null>(null)
NoItem == [id |-> None]

\* Preferences.get resolves with value null
NoTheme == "null"

\* the instants and dates the model draws from
NowStart == NewDate(Ymd(2024, 1, 30))
NowEnd == NowStart + MaxDays * TicksPerDay
TZOffsets == {0, TicksPerDay \div 2}
PurchaseDays == {Ymd(2024, 1, 1), Ymd(2024, 1, 31)}
Ids == 1..MaxItems

\* what the user can type into AddItemView
FormCosts == {300}
FormQuantities == {1}
\* calculation type with its fields: totalUses and estimatedUsageDays for
\* perUse, usageDays alone for perDay
FormEntries ==
  {[calculationType |-> "perUse", totalUses |-> 60, usageDays |-> 4,
    category |-> "daily"],
   [calculationType |-> "perDay", totalUses |-> None, usageDays |-> 30,
    category |-> "food"]}

\* item records an imported file can hold: no cost, no usageDays and no
\* category, or a cost with usageDays 0 and the empty category
ImportEntries ==
  {[totalCost |-> 0, usageDays |-> None, category |-> NoCategory],
   [totalCost |-> 300, usageDays |-> 0, category |-> ""]}
ImportPurchaseDays == {Ymd(2024, 1, 1)}

\* database.put('items', item): insert or replace by key, kept in key order
Put(itemList, item) ==
  LET before(x) == x.id < item.id
      after(x) == x.id > item.id
  IN  SelectSeq(itemList, before) \o <<item>> \o SelectSeq(itemList, after)

\* database.delete('items', id)
Delete(itemList, id) ==
  LET keep(x) == x.id # id
  IN  SelectSeq(itemList, keep)

ItemIds(itemList) == {itemList[i].id : i \in DOMAIN itemList}

\* parseInt(text) || 1
OrOne(x) == IF Truthy(x) THEN x ELSE 1

\* category || undefined
OrUndefined(category) == IF category = "" THEN NoCategory ELSE category

\* AddItemView.handleSubmit: the item data built from the form fields
handleSubmit(totalCost, quantity, purchaseDate, calculationType, totalUses, usageDays, category) ==
  [totalCost       |-> totalCost,
   quantity        |-> OrOne(quantity),
   purchaseDate    |-> purchaseDate,
   calculationType |-> calculationType,
   totalUses       |-> IF calculationType = "perUse" THEN OrOne(totalUses) ELSE None,
   usageDays       |-> OrOne(usageDays),
   category        |-> OrUndefined(category),
   status          |-> "active"]

Init ==
  /\ items = << >>
  /\ now = NowStart
  /\ tz \in TZOffsets
  /\ call = NoCall
  /\ viewMode = "daily"
  /\ selectedMonth = None
  /\ settings = << >>
  /\ reminders = << >>
  /\ backups = << >>
  /\ throttled = [delay |-> None, inProgress |-> FALSE, timer |-> None,
                  invocations |-> << >>]
  /\ debounced = [delay |-> None, timeoutId |-> None, timers |-> {}, calls |-> << >>,
                  invocations |-> << >>]
  /\ currentView = "home"
  /\ selectedItem = NoItem
  /\ editingItem = NoItem
  /\ pending = {}
  /\ themeState = "system"
  /\ resolvedTheme = "light"
  /\ isThemeLoaded = FALSE
  /\ isMountedRef = TRUE
  /\ prefersDark = FALSE
  /\ preferences = NoTheme
  /\ loadTheme = [started |-> FALSE, attempts |-> 0, done |-> FALSE, read |-> FALSE]

\* handleAddItem -> useItems.createItem -> addItem, fetchItems
createItem ==
  /\ Len(items) < MaxItems
  /\ \E totalCost \in FormCosts, quantity \in FormQuantities,
        purchaseDate \in PurchaseDays, entry \in FormEntries :
        /\ totalCost > 0
        /\ LET itemData == handleSubmit(totalCost, quantity, purchaseDate,
                                        entry.calculationType, entry.totalUses,
                                        entry.usageDays, entry.category)
               id == CHOOSE i \in Ids : i \notin ItemIds(items)
                       /\ \A j \in Ids : j \notin ItemIds(items) => i <= j
               newItem == [id |-> id] @@ itemData
           IN  items' = Put(items, newItem)
  /\ UNCHANGED <<now, tz, call, outsideItems>>

\* importData with a file of one item record, then the reload of the list
importData ==
  /\ \E id \in Ids, entry \in ImportEntries, purchaseDate \in ImportPurchaseDays :
        items' = Put(items, [id |-> id, totalCost |-> entry.totalCost, quantity |-> 1,
                             purchaseDate |-> purchaseDate, calculationType |-> "perDay",
                             totalUses |-> None, usageDays |-> entry.usageDays,
                             category |-> entry.category, status |-> "active"])
  /\ UNCHANGED <<now, tz, call, outsideItems>>

\* handleMarkFinished -> useItems.editItem(id, {status: 'finished'})
editItem ==
  /\ \E i \in DOMAIN items :
        items' = Put(items, [items[i] EXCEPT !.status = "finished"])
  /\ UNCHANGED <<now, tz, call, outsideItems>>

\* handleDeleteItem -> useItems.removeItem
removeItem ==
  /\ \E i \in DOMAIN items : items' = Delete(items, items[i].id)
  /\ UNCHANGED <<now, tz, call, outsideItems>>

\* the clock advances
Tick ==
  /\ now < NowEnd
  /\ now' = now + 1
  /\ UNCHANGED <<items, tz, call, outsideItems>>

Next == createItem \/ importData \/ editItem \/ removeItem \/ Tick

Spec == Init /\ [][Next]_vars

\* ------------------------------------------ direct calls of the library
\* the arguments the calls draw from
CallCosts == {-10, 0, 100, 300}
CallQuantities == {1, 2}
CallUses == {None, 0, 30}
CallDays == {None, -1, 0, 3, 30}
CallAmounts == {0, 50, 100}
CallPurchaseDays == {Ymd(2024, 1, 1), Ymd(2024, 1, 31)}
CallRangeDays == {Ymd(2023, 12, 25), Ymd(2024, 1, 1), Ymd(2024, 1, 10),
                  Ymd(2024, 1, 31), Ymd(2024, 2, 1), Ymd(2024, 2, 10)}
CallStatuses == {"active", "finished", "discarded", "archived"}
CallDaysBefore == {1, 3}
CallInstants == NowStart..NowEnd
Libs == {"utils", "helpers"}

CallItem(totalCost, purchaseDate, usageDays, status) ==
  [id |-> 1, totalCost |-> totalCost, quantity |-> 1, purchaseDate |-> purchaseDate,
   calculationType |-> "perDay", totalUses |-> None, usageDays |-> usageDays,
   status |-> status]

CallCalculateUnitPrice ==
  /\ call = NoCall
  /\ \E lib \in Libs, totalCost \in CallCosts, quantity \in CallQuantities,
        calculationType \in {"perUse", "perDay"}, totalUses \in CallUses,
        usageDays \in CallDays :
        call' = [op |-> "calculateUnitPrice", lib |-> lib,
                 totalCost |-> totalCost, quantity |-> quantity,
                 calculationType |-> calculationType, totalUses |-> totalUses,
                 usageDays |-> usageDays,
                 result |-> IF lib = "utils"
                            THEN calculateUnitPrice(totalCost, quantity,
                                   calculationType, totalUses, usageDays)
                            ELSE helpers_calculateUnitPrice(totalCost, quantity,
                                   calculationType, totalUses, usageDays)]
  /\ UNCHANGED <<items, now, tz, outsideItems>>

CallCalculateGrowthRate ==
  /\ call = NoCall
  /\ \E lib \in Libs, current \in CallAmounts, previous \in CallAmounts :
        call' = [op |-> "calculateGrowthRate", lib |-> lib,
                 current |-> current, previous |-> previous,
                 result |-> IF lib = "utils"
                            THEN calculateGrowthRate(R(current), R(previous))
                            ELSE helpers_calculateGrowthRate(R(current), R(previous))]
  /\ UNCHANGED <<items, now, tz, outsideItems>>

CallCalculateMonthlyAllocatedCost ==
  /\ call = NoCall
  /\ \E totalCost \in CallCosts, usageDays \in CallDays,
        purchaseDate \in CallPurchaseDays,
        startDate \in CallRangeDays, endDate \in CallRangeDays :
        LET item == CallItem(totalCost, purchaseDate, usageDays, "active")
        IN  call' = [op |-> "calculateMonthlyAllocatedCost", item |-> item,
                     startDate |-> startDate, endDate |-> endDate,
                     result |-> calculateMonthlyAllocatedCost(startDate, endDate, <<item>>)]
  /\ UNCHANGED <<items, now, tz, outsideItems>>

CallIsItemExpiring ==
  /\ call = NoCall
  /\ \E status \in CallStatuses, usageDays \in CallDays,
        purchaseDate \in CallPurchaseDays, daysBefore \in CallDaysBefore,
        t \in CallInstants :
        LET item == CallItem(300, purchaseDate, usageDays, status)
        IN  call' = [op |-> "isItemExpiring", item |-> item,
                     daysBefore |-> daysBefore, now |-> t,
                     result |-> isItemExpiring(item, daysBefore, t)]
  /\ UNCHANGED <<items, now, tz, outsideItems>>

CallIsItemExpired ==
  /\ call = NoCall
  /\ \E status \in CallStatuses, usageDays \in CallDays,
        purchaseDate \in CallPurchaseDays, t \in CallInstants :
        LET item == CallItem(300, purchaseDate, usageDays, status)
        IN  call' = [op |-> "isItemExpired", item |-> item, now |-> t,
                     result |-> isItemExpired(item, t)]
  /\ UNCHANGED <<items, now, tz, outsideItems>>

\* shouldRunAutoBackup(lastBackupDate, frequency) at the instant now:
\* diffDays = Math.ceil(diffTime / one day), compared with 1, 7 or 30
shouldRunAutoBackup(lastBackupDate, frequency, t) ==
  IF lastBackupDate = None THEN TRUE
  ELSE LET diffTime == t - lastBackupDate
           diffDays == CeilDiv(diffTime, TicksPerDay)
       IN  CASE frequency = "daily" -> diffDays >= 1
             [] frequency = "weekly" -> diffDays >= 7
             [] frequency = "monthly" -> diffDays >= 30
             [] OTHER -> FALSE

\* the time between the last backup and the call
CallElapsed ==
  {0, 1, TicksPerDay, 6 * TicksPerDay + 1, 7 * TicksPerDay, 29 * TicksPerDay + 1,
   30 * TicksPerDay}

\* purchase dates without and with a time of day
CallPurchaseStamps ==
  {Ymd(2024, 1, 1), Timestamp(NewDate(Ymd(2024, 1, 1)) + 1)}

\* statistics.expiringItems of a collection of one item, and isItemExpiring(item)
\* with its default of 3 days, at the same instant
CallExpiringItems ==
  /\ call = NoCall
  /\ \E status \in CallStatuses, usageDays \in CallDays,
        purchaseDate \in CallPurchaseStamps, t \in CallInstants :
        LET item == CallItem(300, purchaseDate, usageDays, status)
        IN  call' = [op |-> "expiringItems", item |-> item, now |-> t,
                     expiringItems |-> Statistics(<<item>>, t).expiringItems,
                     isItemExpiring |-> isItemExpiring(item, 3, t)]
  /\ UNCHANGED <<items, now, tz, outsideItems>>

CallShouldRunAutoBackup ==
  /\ call = NoCall
  /\ \E frequency \in {"daily", "weekly", "monthly"},
        lastBackupDate \in {None} \cup {now - elapsed : elapsed \in CallElapsed} :
        call' = [op |-> "shouldRunAutoBackup", lastBackupDate |-> lastBackupDate,
                 frequency |-> frequency, now |-> now,
                 result |-> shouldRunAutoBackup(lastBackupDate, frequency, now)]
  /\ UNCHANGED <<items, now, tz, outsideItems>>

\* the caller drops the result; the next call can be made
Return ==
  /\ call # NoCall
  /\ call' = NoCall
  /\ UNCHANGED <<items, now, tz, outsideItems>>

NextCalls ==
  \/ CallCalculateUnitPrice
  \/ CallCalculateGrowthRate
  \/ CallCalculateMonthlyAllocatedCost
  \/ CallIsItemExpiring
  \/ CallIsItemExpired
  \/ CallShouldRunAutoBackup
  \/ CallExpiringItems
  \/ Return

SpecCalls == Init /\ [][NextCalls]_vars

\* ------------------------------------------------- the heatmap's handlers
\* what the heatmap's handlers leave alone
outsideHeatmap == <<items, now, tz, backupVars, otherVars>>

\* setViewMode(viewMode === 'daily' ? 'monthly' : 'daily')
toggleViewMode ==
  /\ viewMode' = IF viewMode = "daily" THEN "monthly" ELSE "daily"
  /\ UNCHANGED <<selectedMonth, call, outsideHeatmap>>

\* onClick of the cell of a bucket of the series shown (the series is given by
\* its months, or by its days in the daily view); call records whether the
\* cell was the selected month
onClickCell ==
  /\ LET dates == IF viewMode = "monthly" THEN generateLast12Months(now, tz)
                  ELSE generateLast30Days(now)
         cells == {dates[j] : j \in DOMAIN dates}
     IN  \E date \in cells :
        /\ selectedMonth' = IF viewMode = "monthly"
                            THEN (IF selectedMonth = date THEN None ELSE date)
                            ELSE selectedMonth
        /\ call' = [op |-> "onClick", viewMode |-> viewMode,
                    wasSelected |-> (viewMode = "monthly" /\ selectedMonth = date)]
  /\ UNCHANGED <<viewMode, outsideHeatmap>>

NextHeatmap == createItem \/ Tick \/ toggleViewMode \/ onClickCell

SpecHeatmap == Init /\ [][NextHeatmap]_vars

\* ------------------------------------------- reminders and backups (lib/db)
\* getDefaultSettings().reminderDaysBefore, the value ReminderManager starts with
reminderDaysBefore == 3

\* the random parts Math.random().toString(36).substr(2) is drawn from
RandomParts == {1, 2}

\* Date.now().toString(36) + the random part
ReminderId(t, random) == t * 10 + random

\* the reminders checkAndCreateReminders builds for the active items, one
\* random part per item
RECURSIVE NewReminders(_, _, _)
NewReminders(itemList, random, t) ==
  IF itemList = << >> THEN << >>
  ELSE LET item == Head(itemList)
           rest == NewReminders(Tail(itemList), random, t)
           reminder(type) == [id |-> ReminderId(t, random[item.id]), itemId |-> item.id,
                              reminderDate |-> t, type |-> type, read |-> FALSE]
       IN  IF item.status # "active" THEN rest
           ELSE IF isItemExpiring(item, reminderDaysBefore, t)
                THEN <<reminder("expiring")>> \o rest
           ELSE IF isItemExpired(item, t) THEN <<reminder("expired")>> \o rest
           ELSE rest

\* store.put of every record of a list, in order
RECURSIVE PutAll(_, _)
PutAll(store, records) ==
  IF records = << >> THEN store
  ELSE PutAll(Put(store, Head(records)), Tail(records))

\* what the reminder and backup handlers leave alone
outsideBackup == <<now, tz, heatmapVars, otherVars>>

\* ReminderManager.checkAndCreateReminders: nothing when the reminders are
\* switched off, else addReminder for each new reminder
checkAndCreateReminders ==
  /\ \E reminderEnabled \in BOOLEAN, random \in [Ids -> RandomParts] :
        reminders' = IF ~reminderEnabled THEN reminders
                     ELSE PutAll(reminders, NewReminders(items, random, now))
  /\ UNCHANGED <<items, settings, backups, call, outsideBackup>>

\* exportData
exportData ==
  [items      |-> items,
   settings   |-> IF settings = << >> THEN << >> ELSE <<settings[1]>>,
   reminders  |-> reminders,
   backupInfo |-> [date |-> now]]

\* backups.slice(-n)
Slice(list, n) ==
  IF Len(list) <= n THEN list ELSE SubSeq(list, Len(list) - n + 1, Len(list))

\* faulty variant: the 10 most recent entries are kept before the push
createAutoBackupEntries_keepTen(list, entry) == Append(Slice(list, 10), entry)

\* limitedBackups = backups.slice(-9); limitedBackups.push(entry)
createAutoBackupEntries(list, entry) == Append(Slice(list, 9), entry)

\* createAutoBackup: the new list is stored and the file name returned, or an
\* exception (the database, the storage quota) is caught and null returned
createAutoBackup ==
  /\ call = NoCall
  /\ \E ok \in BOOLEAN :
        IF ok
        THEN /\ backups' = createAutoBackupEntries(backups,
                             [id |-> now, filename |-> now, date |-> now,
                              content |-> exportData])
             /\ call' = [op |-> "createAutoBackup", before |-> backups,
                         result |-> now]
        ELSE /\ backups' = backups
             /\ call' = [op |-> "createAutoBackup", before |-> backups,
                         result |-> None]
  /\ UNCHANGED <<items, settings, reminders, outsideBackup>>

\* the backup ids a caller can pass: those of the list and one of no backup
BackupIds == {backups[i].id : i \in DOMAIN backups} \cup {None}

\* the order of the settings store's keys, the theme strings
ThemeOrder == [dark |-> 1, light |-> 2, system |-> 3]

\* database.put('settings', s): insert or replace by the key path 'theme', kept
\* in key order
PutSettings(store, s) ==
  LET before(x) == ThemeOrder[x.theme] < ThemeOrder[s.theme]
      after(x) == ThemeOrder[x.theme] > ThemeOrder[s.theme]
  IN  SelectSeq(store, before) \o <<s>> \o SelectSeq(store, after)

\* getDefaultSettings, with the theme and one more field
getDefaultSettings == [theme |-> "system", currency |-> "CNY"]

\* getSettings: allSettings[0] || getDefaultSettings()
getSettings == IF settings = << >> THEN getDefaultSettings ELSE settings[1]

\* importData(data), the part of restoreFromBackup that writes the stores
importStores(data) ==
  /\ items' = PutAll(items, data.items)
  /\ settings' = IF data.settings = << >> THEN settings
                  ELSE PutSettings(settings, data.settings[1])
  /\ reminders' = PutAll(reminders, data.reminders)

\* restoreFromBackup(backupId): backups.find, then importData of its content
restoreFromBackup ==
  /\ call = NoCall
  /\ \E backupId \in BackupIds :
        LET found == {i \in DOMAIN backups : backups[i].id = backupId}
        IN  IF found # {}
            THEN LET backup == backups[Min(found)]
                 IN  /\ importStores(backup.content)
                     /\ call' = [op |-> "restoreFromBackup", backupId |-> backupId,
                                 data |-> backup.content, result |-> TRUE]
            ELSE /\ UNCHANGED <<items, settings, reminders>>
                 /\ call' = [op |-> "restoreFromBackup", backupId |-> backupId,
                             result |-> FALSE]
  /\ UNCHANGED <<backups, outsideBackup>>

\* deleteBackup(backupId): backups.filter(b => b.id !== backupId)
deleteBackup ==
  /\ call = NoCall
  /\ \E backupId \in BackupIds :
        LET keep(b) == b.id # backupId
        IN  /\ backups' = SelectSeq(backups, keep)
            /\ call' = [op |-> "deleteBackup", backupId |-> backupId,
                        before |-> backups, result |-> TRUE]
  /\ UNCHANGED <<items, settings, reminders, outsideBackup>>

\* the settings a caller can save
SettingsValues == [theme : {"dark", "light", "system"}, currency : {"CNY", "USD"}]

\* saveSettings(s)
saveSettings ==
  /\ call = NoCall
  /\ \E s \in SettingsValues :
        /\ settings' = PutSettings(settings, s)
        /\ call' = [op |-> "saveSettings", settings |-> s]
  /\ UNCHANGED <<items, reminders, backups, outsideBackup>>

\* importData of a file that holds settings and nothing else
importSettings ==
  /\ call = NoCall
  /\ \E s \in SettingsValues :
        importStores([items |-> << >>, settings |-> <<s>>, reminders |-> << >>])
  /\ call' = [op |-> "importData"]
  /\ UNCHANGED <<backups, outsideBackup>>

\* the settings store under saves and imports; every call returns before the
\* next is made
NextSettings == saveSettings \/ importSettings \/ Return

SpecSettings == Init /\ [][NextSettings]_vars

\* the backup manager with a data set that changes: the backups taken are
\* bounded, every call returns before the next handler runs
NextRestore ==
  \/ call = NoCall /\ createItem
  \/ call = NoCall /\ checkAndCreateReminders
  \/ Len(backups) < MaxSnapshots /\ createAutoBackup
  \/ restoreFromBackup
  \/ Return

SpecRestore == Init /\ [][NextRestore]_vars

\* the backup list over time: backups are taken and deleted while the clock
\* advances
NextBackups ==
  \/ createAutoBackup
  \/ deleteBackup
  \/ now < NowStart + MaxDays /\ Tick
  \/ Return

SpecBackups == Init /\ [][NextBackups]_vars

\* the reminder ids a caller can pass: those of the store and one of no
\* reminder
ReminderIds == {reminders[i].id : i \in DOMAIN reminders} \cup {None}

\* faulty variant: every reminder of the store is marked
MarkRead_all(store, id) == [k \in DOMAIN store |-> [store[k] EXCEPT !.read = TRUE]]

\* get(id), reminder.read = true, put(reminder)
MarkRead(store, id) ==
  LET found == {k \in DOMAIN store : store[k].id = id}
  IN  IF found = {} THEN store
      ELSE Put(store, [store[Min(found)] EXCEPT !.read = TRUE])

\* markReminderAsRead(id); resolves with no value
markReminderAsRead ==
  /\ call = NoCall
  /\ \E id \in ReminderIds :
        /\ reminders' = MarkRead(reminders, id)
        /\ call' = [op |-> "markReminderAsRead", id |-> id, before |-> reminders,
                    result |-> None]
  /\ UNCHANGED <<items, settings, backups, outsideBackup>>

\* deleteReminder(id): store.delete
deleteReminder ==
  /\ call = NoCall
  /\ \E id \in ReminderIds :
        LET keep(r) == r.id # id
        IN  /\ reminders' = SelectSeq(reminders, keep)
            /\ call' = [op |-> "deleteReminder", id |-> id, before |-> reminders,
                        result |-> None]
  /\ UNCHANGED <<items, settings, backups, outsideBackup>>

\* the reminder manager: items are added, reminders are created, marked and
\* deleted; every call returns before the next handler runs
NextReminders ==
  \/ call = NoCall /\ createItem
  \/ call = NoCall /\ checkAndCreateReminders
  \/ markReminderAsRead
  \/ deleteReminder
  \/ Return

SpecReminders == Init /\ [][NextReminders]_vars

\* ------------------------------------------------ helpers: throttle, debounce
\* the delays the closures are made with, in ticks, and the arguments of the
\* calls
Delays == {1, 2}
CallArgs == {1, 2}

\* what the closures' steps leave alone
outsideTimers == <<items, tz, heatmapVars, backupVars, appVars, themeVars>>

\* throttle(func, delay): the closure is made, inProgress = false
throttle ==
  /\ throttled.delay = None
  /\ \E delay \in Delays : throttled' = [throttled EXCEPT !.delay = delay]
  /\ UNCHANGED <<now, call, debounced, outsideTimers>>

\* the closure's body: func(...args) runs first and may throw, which leaves
\* the function before inProgress is set and the timer started
ThrottledCall(t, args, throws, at) ==
  IF t.inProgress THEN t
  ELSE LET invoked == [t EXCEPT !.invocations = Append(@, [at |-> at, args |-> args])]
       IN  IF throws THEN invoked
           ELSE [invoked EXCEPT !.inProgress = TRUE, !.timer = at + t.delay]

\* a call of the throttled function
throttledCall ==
  /\ call = NoCall
  /\ throttled.delay # None
  /\ Len(throttled.invocations) < MaxInvocations
  /\ \E args \in CallArgs, throws \in BOOLEAN :
        /\ throttled' = ThrottledCall(throttled, args, throws, now)
        /\ call' = [op |-> "throttled", args |-> args, at |-> now,
                    inProgress |-> throttled.inProgress,
                    invoked |-> Len(throttled.invocations),
                    threw |-> (~throttled.inProgress /\ throws)]
  /\ UNCHANGED <<now, debounced, outsideTimers>>

\* the timer's callback: inProgress = false
throttleTimeout ==
  /\ call = NoCall
  /\ throttled.timer # None
  /\ now >= throttled.timer
  /\ throttled' = [throttled EXCEPT !.inProgress = FALSE, !.timer = None]
  /\ UNCHANGED <<now, call, debounced, outsideTimers>>

\* a timer that is due runs before the clock moves on
NextThrottle ==
  \/ throttle
  \/ throttledCall
  \/ throttleTimeout
  \/ call = NoCall /\ (throttled.timer = None \/ now < throttled.timer) /\ Tick
  \/ Return

SpecThrottle == Init /\ [][NextThrottle]_vars

\* debounce(func, delay): the closure is made, timeoutId is undefined
debounce ==
  /\ debounced.delay = None
  /\ \E delay \in Delays : debounced' = [debounced EXCEPT !.delay = delay]
  /\ UNCHANGED <<now, call, throttled, outsideTimers>>

\* clearTimeout(timeoutId)
ClearTimeout(timers, timeoutId) == {t \in timers : t.id # timeoutId}

\* faulty variant: the pending timer is not cleared
DebouncedCall_noClear(d, args, at) == [d EXCEPT !.timeoutId = Len(d.calls) + 1, !.timers = @ \cup {[id |-> Len(d.calls) + 1, due |-> at + d.delay, args |-> args]}, !.calls = Append(@, [at |-> at, args |-> args])]

\* the closure's body: clearTimeout(timeoutId); timeoutId = setTimeout(...).
\* The timer ids count the calls
DebouncedCall(d, args, at) ==
  LET id == Len(d.calls) + 1
  IN  [d EXCEPT !.timeoutId = id,
                !.timers = ClearTimeout(@, d.timeoutId)
                             \cup {[id |-> id, due |-> at + d.delay, args |-> args]},
                !.calls = Append(@, [at |-> at, args |-> args])]

\* a call of the debounced function
debouncedCall ==
  /\ call = NoCall
  /\ debounced.delay # None
  /\ Len(debounced.calls) < MaxTimers
  /\ \E args \in CallArgs :
        /\ debounced' = DebouncedCall(debounced, args, now)
        /\ call' = [op |-> "debounced", args |-> args, at |-> now,
                    invoked |-> Len(debounced.invocations)]
  /\ UNCHANGED <<now, throttled, outsideTimers>>

\* a timer's callback: func(...args), after the calls made so far
debounceTimeout ==
  /\ call = NoCall
  /\ \E t \in debounced.timers :
        /\ now >= t.due
        /\ debounced' = [debounced EXCEPT
                           !.timers = @ \ {t},
                           !.invocations = Append(@, [at |-> now, args |-> t.args,
                                                      after |-> Len(debounced.calls)])]
  /\ UNCHANGED <<now, call, throttled, outsideTimers>>

\* a timer that is due runs before the clock moves on
NextDebounce ==
  \/ debounce
  \/ debouncedCall
  \/ debounceTimeout
  \/ call = NoCall /\ (\A t \in debounced.timers : now < t.due) /\ Tick
  \/ Return

SpecDebounce == Init /\ [][NextDebounce]_vars

\* ------------------------------------------------------- App: the views
\* what the App's handlers leave alone; call holds the handler that has just
\* completed a save, and no call after any other step
outsideApp == <<now, tz, heatmapVars, backupVars, timerVars, themeVars>>

\* the views of the bottom navigation
NavViews == {"home", "items", "statistics", "settings"}

\* the item data the form is submitted with, for a new item and for an edit
EditCosts == {450}
AppFormData(costs) == {handleSubmit(totalCost, 1, Ymd(2024, 1, 1), "perDay", None, 30, "food") : totalCost \in costs}

\* items.find(i => i.id === id) of useItems.editItem
Exists(itemList, id) == id \in ItemIds(itemList)

\* home view's add button: setEditingItem(null); setCurrentView('add')
onAddItem ==
  /\ currentView = "home"
  /\ editingItem' = NoItem
  /\ currentView' = "add"
  /\ call' = NoCall
  /\ UNCHANGED <<items, selectedItem, pending, outsideApp>>

\* handleAddItem: createItem, then setCurrentView('home')
handleAddItem ==
  /\ currentView = "add"
  /\ editingItem = NoItem
  /\ Len(items) < MaxItems
  /\ \E itemData \in AppFormData(FormCosts) :
        LET id == CHOOSE i \in Ids : i \notin ItemIds(items)
                    /\ \A j \in Ids : j \notin ItemIds(items) => i <= j
        IN  items' = Put(items, [id |-> id] @@ itemData)
  /\ currentView' = "home"
  /\ call' = NoCall
  /\ UNCHANGED <<selectedItem, editingItem, pending, outsideApp>>

\* the bottom navigation and the back buttons: setCurrentView(view)
setCurrentView ==
  /\ \E view \in NavViews :
        /\ \/ currentView \in NavViews
           \/ currentView = "detail" /\ selectedItem # NoItem /\ view = "items"
        /\ currentView' = view
  /\ call' = NoCall
  /\ UNCHANGED <<items, selectedItem, editingItem, pending, outsideApp>>

\* handleViewItem(item), from the home view or the item list
handleViewItem ==
  /\ currentView \in {"home", "items"}
  /\ \E i \in DOMAIN items : selectedItem' = items[i]
  /\ currentView' = "detail"
  /\ call' = NoCall
  /\ UNCHANGED <<items, editingItem, pending, outsideApp>>

\* handleEdit, the detail view's edit button
handleEdit ==
  /\ currentView = "detail"
  /\ selectedItem # NoItem
  /\ editingItem' = selectedItem
  /\ currentView' = "add"
  /\ call' = NoCall
  /\ UNCHANGED <<items, selectedItem, pending, outsideApp>>

\* handleCancelEdit, the form's cancel button
handleCancelEdit ==
  /\ currentView = "add"
  /\ editingItem' = NoItem
  /\ currentView' = IF editingItem # NoItem THEN "detail" ELSE "home"
  /\ call' = NoCall
  /\ UNCHANGED <<items, selectedItem, pending, outsideApp>>

\* handleEditItem up to its await: editItem(editingItem.id, itemData) finds the
\* item in the hook's array, builds the updated item and calls updateItem; an
\* item that is not found makes editItem throw, which the handler catches
onSave ==
  /\ currentView = "add"
  /\ editingItem # NoItem
  /\ Cardinality(pending) < MaxPending
  /\ Exists(items, editingItem.id)
  /\ \E itemData \in AppFormData(EditCosts) :
        LET existingItem == items[CHOOSE i \in DOMAIN items : items[i].id = editingItem.id]
            updatedItem == [existingItem EXCEPT !.totalCost = itemData.totalCost]
        IN  pending' = pending \cup {[op |-> "handleEditItem", item |-> updatedItem]}
  /\ call' = NoCall
  /\ UNCHANGED <<items, currentView, selectedItem, editingItem, outsideApp>>

\* handleEditItem after its await: the item is stored and the list reloaded,
\* setEditingItem(null), setCurrentView('detail')
handleEditItem ==
  /\ \E p \in pending :
        /\ p.op = "handleEditItem"
        /\ items' = Put(items, p.item)
        /\ pending' = pending \ {p}
        /\ call' = [op |-> "handleEditItem", id |-> p.item.id]
  /\ editingItem' = NoItem
  /\ currentView' = "detail"
  /\ UNCHANGED <<selectedItem, outsideApp>>

\* handleDeleteItem up to its await: removeItem(selectedItem.id)
onDelete ==
  /\ currentView = "detail"
  /\ selectedItem # NoItem
  /\ Cardinality(pending) < MaxPending
  /\ pending' = pending \cup {[op |-> "handleDeleteItem", item |-> selectedItem]}
  /\ call' = NoCall
  /\ UNCHANGED <<items, currentView, selectedItem, editingItem, outsideApp>>

\* handleDeleteItem after its await: the item is deleted and the list
\* reloaded, setSelectedItem(null), setCurrentView('items')
handleDeleteItem ==
  /\ \E p \in pending :
        /\ p.op = "handleDeleteItem"
        /\ items' = Delete(items, p.item.id)
        /\ pending' = pending \ {p}
  /\ selectedItem' = NoItem
  /\ currentView' = "items"
  /\ call' = NoCall
  /\ UNCHANGED <<editingItem, outsideApp>>

\* handleArchiveItem and handleMarkFinished up to their await:
\* editItem(selectedItem.id, {status})
onSetStatus ==
  /\ currentView = "detail"
  /\ selectedItem # NoItem
  /\ Cardinality(pending) < MaxPending
  /\ Exists(items, selectedItem.id)
  /\ \E status \in {"archived", "finished"} :
        LET existingItem == items[CHOOSE i \in DOMAIN items : items[i].id = selectedItem.id]
        IN  pending' = pending \cup {[op |-> "handleSetStatus",
                                      item |-> [existingItem EXCEPT !.status = status]]}
  /\ call' = NoCall
  /\ UNCHANGED <<items, currentView, selectedItem, editingItem, outsideApp>>

\* handleArchiveItem and handleMarkFinished after their await: the item is
\* stored and the list reloaded, setSelectedItem(null), setCurrentView('items')
handleSetStatus ==
  /\ \E p \in pending :
        /\ p.op = "handleSetStatus"
        /\ items' = Put(items, p.item)
        /\ pending' = pending \ {p}
  /\ selectedItem' = NoItem
  /\ currentView' = "items"
  /\ call' = NoCall
  /\ UNCHANGED <<editingItem, outsideApp>>

NextApp ==
  \/ onAddItem
  \/ handleAddItem
  \/ setCurrentView
  \/ handleViewItem
  \/ handleEdit
  \/ handleCancelEdit
  \/ onSave
  \/ handleEditItem
  \/ onDelete
  \/ handleDeleteItem
  \/ onSetStatus
  \/ handleSetStatus

SpecApp == Init /\ [][NextApp]_vars

\* ------------------------------------------------------- hooks/useTheme
\* what the theme hook leaves alone
outsideTheme == <<items, now, tz, heatmapVars, backupVars, timerVars, appVars>>

Themes == {"light", "dark", "system"}
maxAttempts == 3

\* prefersDark ? 'dark' : 'light'
Scheme(dark) == IF dark THEN "dark" ELSE "light"

\* resolveTheme
ResolveTheme(theme, dark) == IF theme = "system" THEN Scheme(dark) ELSE theme

\* the effects that follow a render with the theme and the loaded flag given:
\* when themeState.theme has changed the resolve effect is cleaned up
\* (isMountedRef.current = false) and run again; when save is set (themeState
\* or isThemeLoaded has changed) and the theme is loaded the save effect calls
\* Preferences.set, which stores the theme or fails; read tells whether the
\* stored theme has been read
Effects(theme, loaded, save, cause, read) ==
  /\ themeState' = theme
  /\ isThemeLoaded' = loaded
  /\ IF theme # themeState
     THEN /\ isMountedRef' = FALSE
          /\ resolvedTheme' = ResolveTheme(theme, prefersDark)
     ELSE UNCHANGED <<isMountedRef, resolvedTheme>>
  /\ IF save /\ loaded
     THEN \E ok \in BOOLEAN :
             /\ preferences' = IF ok THEN theme ELSE preferences
             /\ call' = [op |-> "Preferences.set", cause |-> cause, value |-> theme,
                         before |-> preferences, read |-> read,
                         loaded |-> loaded, ok |-> ok]
     ELSE /\ preferences' = preferences
          /\ call' = NoCall

\* the first render of the hook: a theme may be stored from an earlier run,
\* the resolve effect takes the system's scheme, loadTheme starts
useTheme ==
  /\ ~loadTheme.started
  /\ \E stored \in Themes \cup {NoTheme}, dark \in BOOLEAN :
        /\ preferences' = stored
        /\ prefersDark' = dark
        /\ resolvedTheme' = ResolveTheme(themeState, dark)
  /\ loadTheme' = [loadTheme EXCEPT !.started = TRUE]
  /\ UNCHANGED <<themeState, isThemeLoaded, isMountedRef, call, outsideTheme>>

\* one pass of loadTheme's loop: Preferences.get throws, finds nothing, or
\* finds the stored theme; after a successful read or the last attempt the
\* loop is left and the theme marked as loaded, if isMountedRef.current
loadThemeAttempt ==
  /\ loadTheme.started
  /\ ~loadTheme.done
  /\ loadTheme.attempts < maxAttempts
  /\ \E throws \in BOOLEAN :
        LET attempts == loadTheme.attempts + 1
            found == ~throws /\ preferences # NoTheme
            done == found \/ attempts >= maxAttempts
            theme == IF found /\ isMountedRef THEN preferences ELSE themeState
            loaded == IF done /\ isMountedRef THEN TRUE ELSE isThemeLoaded
        IN  /\ loadTheme' = [loadTheme EXCEPT !.attempts = attempts, !.done = done,
                                              !.read = found]
            /\ Effects(theme, loaded, loaded # isThemeLoaded, "loadTheme", found)
  /\ UNCHANGED <<prefersDark, outsideTheme>>

\* setTheme(theme): setThemeState(prev => ({...prev, theme}))
setTheme ==
  /\ loadTheme.started
  /\ \E theme \in Themes : Effects(theme, isThemeLoaded, TRUE, "setTheme", loadTheme.read)
  /\ UNCHANGED <<prefersDark, loadTheme, outsideTheme>>

\* the system's colour scheme changes: the media query's change handler
systemChange ==
  /\ loadTheme.started
  /\ prefersDark' = ~prefersDark
  /\ resolvedTheme' = IF themeState = "system" /\ isMountedRef
                      THEN Scheme(~prefersDark) ELSE resolvedTheme
  /\ UNCHANGED <<themeState, isThemeLoaded, isMountedRef, preferences, loadTheme, call, outsideTheme>>

NextTheme == useTheme \/ loadThemeAttempt \/ setTheme \/ systemChange

SpecTheme == Init /\ [][NextTheme]_vars

\* what the hooks and the home view hold for the current item array
statistics == Statistics(items, now)
monthlyComparison == MonthlyComparison(items, now, tz)
todayDailyCost == calculateDailyCost(items, now)
categoryStatistics == CategoryStatistics(items)
trendData == TrendData(items, now, tz)

\* what the heatmap holds for the current item array and its own state
dailyData == DailyData(items, now)
monthlyData == MonthlyData(items, now, tz)
currentData == IF viewMode = "daily" THEN dailyData ELSE monthlyData
selectedMonthDays == SelectedMonthDays(selectedMonth, items)
amountRange == AmountRange(currentData)

\* faulty variant: the drill-down reuses the range of the series shown
selectedMonthAmountRange_reused == amountRange

selectedMonthAmountRange == SelectedMonthAmountRange(selectedMonthDays)

\* selectedMonth && viewMode === 'monthly'
drillDownShown == selectedMonth # None /\ viewMode = "monthly"

\* the intensity behind the colour of cell j of the grid, getCellColor(amount),
\* and of day j of the drill-down, getCellColor(amount, selectedMonthAmountRange)
cellIntensity ==
  LET data == currentData
      range == amountRange
  IN  [j \in DOMAIN data |-> getColorIntensity(data[j].amount, range)]

dayIntensity ==
  LET days == selectedMonthDays
      range == selectedMonthAmountRange
  IN  [j \in DOMAIN days |-> getColorIntensity(days[j].amount, range)]

\* ============================================================ properties
\* the item of the worked example: 300 spent, per day, 30 days, bought 2024-01-01
IsExample(item) ==
  /\ item.totalCost = 300
  /\ item.calculationType = "perDay"
  /\ item.usageDays = 30
  /\ item.purchaseDate = Ymd(2024, 1, 1)

IsAllocCall == call.op = "calculateMonthlyAllocatedCost"

\* the calendar days that lie both in the item's window and in the range
CommonDays(item, startDate, endDate) ==
  {d \in item.purchaseDate..(item.purchaseDate + item.usageDays) :
     startDate <= d /\ d <= endDate}

\* C1: amortization conservation - for one item with totalCost C > 0 and
\* usageDays D > 0, the cost allocated over a range that covers the whole
\* window [purchaseDate, purchaseDate + D] equals C
C1_Conservation ==
  (/\ IsAllocCall
   /\ call.item.totalCost > 0
   /\ call.item.usageDays > 0
   /\ call.startDate <= call.item.purchaseDate
   /\ call.item.purchaseDate + call.item.usageDays <= call.endDate)
  => call.result = R(call.item.totalCost)

\* C2: for one item with usageDays D > 0 and any range [A, B] the allocated
\* cost is (totalCost / D) times the number of calendar days that lie in the
\* window and in the range, and 0 when the two do not intersect
C2_AllocatedCost ==
  (IsAllocCall /\ call.item.usageDays > 0) =>
    LET common == CommonDays(call.item, call.startDate, call.endDate)
    IN  /\ call.result = RMul(Rat(call.item.totalCost, call.item.usageDays),
                              R(Cardinality(common)))
        /\ common = {} => call.result = R(0)

\* C2 witness: the worked example, range 2024-01-01..2024-01-10, gives 100
C2_Witness ==
  /\ IsAllocCall
  /\ IsExample(call.item)
  /\ call.startDate = Ymd(2024, 1, 1)
  /\ call.endDate = Ymd(2024, 1, 10)
  /\ call.result = R(100)

\* C3: today's allocated cost of the home view equals the collection's
\* allocated cost for the one-day range [today, today]
C3_TodayCost ==
  todayDailyCost =
    calculateMonthlyAllocatedCost(formatDate(now), formatDate(now), items)

\* C4: the growth rate of the monthly comparison is
\* (current - previous) / previous * 100 when previous > 0, and 0 otherwise
C4_GrowthRate ==
  LET mc == monthlyComparison
  IN  /\ RPos(mc.last) =>
           RMul(mc.growthRate, mc.last) = RMul(RSub(mc.current, mc.last), R(100))
      /\ ~RPos(mc.last) => mc.growthRate = R(0)

\* C4 witness: a previous month with cost, and a growth rate that is not 0
C4_Witness ==
  /\ RPos(monthlyComparison.last)
  /\ monthlyComparison.growthRate # R(0)

\* C5: growth rate zero-guard - with previous = 0 the growth rate is 100 when
\* current > 0 and 0 when current = 0, for calculateGrowthRate and for the
\* growthRate of the monthly comparison
C5_ZeroGuard ==
  /\ (call.op = "calculateGrowthRate" /\ call.previous = 0) =>
        call.result = (IF call.current > 0 THEN R(100) ELSE R(0))
  /\ monthlyComparison.last = R(0) =>
        monthlyComparison.growthRate =
          (IF RPos(monthlyComparison.current) THEN R(100) ELSE R(0))

IsUnitPriceCall == call.op = "calculateUnitPrice"

\* C6: calculateUnitPrice is 0 for totalCost <= 0, totalCost / totalUses for
\* perUse with totalUses > 0, totalCost / usageDays for perDay with
\* usageDays > 0, totalCost in every other case, and never negative
C6_UnitPrice ==
  IsUnitPriceCall =>
    LET perUse == call.calculationType = "perUse" /\ call.totalUses > 0
        perDay == call.calculationType = "perDay" /\ call.usageDays > 0
    IN  /\ call.totalCost <= 0 => call.result = R(0)
        /\ (call.totalCost > 0 /\ perUse) =>
              RMul(call.result, R(call.totalUses)) = R(call.totalCost)
        /\ (call.totalCost > 0 /\ perDay) =>
              RMul(call.result, R(call.usageDays)) = R(call.totalCost)
        /\ (call.totalCost > 0 /\ ~perUse /\ ~perDay) =>
              call.result = R(call.totalCost)
        /\ call.result.n >= 0

\* C6 witness: a perUse call whose totalUses is missing although usageDays
\* is present falls back to totalCost
C6_Witness ==
  /\ IsUnitPriceCall
  /\ call.calculationType = "perUse"
  /\ call.totalUses = None
  /\ call.usageDays = 30
  /\ call.totalCost = 100
  /\ call.result = R(100)

\* the same call made with another quantity
SameCallWithQuantity(q) ==
  IF call.lib = "utils"
  THEN calculateUnitPrice(call.totalCost, q, call.calculationType,
                          call.totalUses, call.usageDays)
  ELSE helpers_calculateUnitPrice(call.totalCost, q, call.calculationType,
                                  call.totalUses, call.usageDays)

\* C7: quantity irrelevance - two calls of calculateUnitPrice that differ
\* only in quantity give the same result
C7_QuantityIrrelevance ==
  IsUnitPriceCall =>
    \A q \in CallQuantities : SameCallWithQuantity(q) = call.result

\* C7 witness: a call with quantity 2 and a positive price
C7_Witness ==
  /\ IsUnitPriceCall
  /\ call.quantity = 2
  /\ call.totalCost = 300
  /\ call.calculationType = "perUse"
  /\ call.totalUses = 30
  /\ call.result = R(10)

\* ceil((purchaseDate + usageDays - now) / 1 day)
RemainingDaysOf(item, t) ==
  CeilDiv((item.purchaseDate + item.usageDays) * TicksPerDay - t, TicksPerDay)

HasWindow(item) == item.usageDays > 0

\* C8: isItemExpiring is true exactly for active items with a window and
\* 0 < remainingDays <= daysBefore, isItemExpired exactly for active items
\* with a window and remainingDays <= 0, and no item is both
C8_ExpiryPredicates ==
  /\ call.op = "isItemExpiring" =>
        /\ call.result <=>
              /\ call.item.status = "active"
              /\ HasWindow(call.item)
              /\ 0 < RemainingDaysOf(call.item, call.now)
              /\ RemainingDaysOf(call.item, call.now) <= call.daysBefore
        /\ call.result => ~isItemExpired(call.item, call.now)
  /\ call.op = "isItemExpired" =>
        /\ call.result <=>
              /\ call.item.status = "active"
              /\ HasWindow(call.item)
              /\ RemainingDaysOf(call.item, call.now) <= 0
        /\ call.result => \A db \in CallDaysBefore :
                             ~isItemExpiring(call.item, db, call.now)

\* C8 witness: daysBefore = 3 and an active item at remainingDays 0, which
\* is not expiring
C8_Witness ==
  /\ call.op = "isItemExpiring"
  /\ call.daysBefore = 3
  /\ call.item.status = "active"
  /\ HasWindow(call.item)
  /\ RemainingDaysOf(call.item, call.now) = 0
  /\ call.result = FALSE

\* C9: statistics.expiringItems counts the active items with usageDays > 0
\* whose remaining days until purchaseDate + usageDays lie in (0, 3]
C9_ExpiringItems ==
  statistics.expiringItems =
    Cardinality({i \in DOMAIN items :
                   /\ items[i].status = "active"
                   /\ HasWindow(items[i])
                   /\ 0 < RemainingDaysOf(items[i], now)
                   /\ RemainingDaysOf(items[i], now) <= 3})

\* C9 witness: one item is counted, next to an active item past its end date
C9_Witness ==
  /\ statistics.expiringItems = 1
  /\ \E i \in DOMAIN items :
        /\ items[i].status = "active"
        /\ HasWindow(items[i])
        /\ RemainingDaysOf(items[i], now) <= 0

UnitPriceOf(item) ==
  calculateUnitPrice(item.totalCost, item.quantity, item.calculationType,
                     item.totalUses, item.usageDays)

RECURSIVE SumUnitPrices(_)
SumUnitPrices(S) ==
  IF S = {} THEN R(0)
  ELSE LET i == CHOOSE x \in S : TRUE
       IN  RAdd(UnitPriceOf(items[i]), SumUnitPrices(S \ {i}))

\* C10: statistics.averageUnitPrice is the mean of the unit prices of the
\* items whose unit price is > 0, and 0 when there is no such item
C10_AverageUnitPrice ==
  LET priced == {i \in DOMAIN items : RPos(UnitPriceOf(items[i]))}
  IN  /\ priced = {} => statistics.averageUnitPrice = R(0)
      /\ priced # {} =>
            RMul(statistics.averageUnitPrice, R(Cardinality(priced)))
              = SumUnitPrices(priced)

\* C10 witness: the worked example next to an item of unit price 0; the
\* average is 10
C10_Witness ==
  /\ Len(items) = 2
  /\ \E i \in DOMAIN items : IsExample(items[i])
  /\ \E i \in DOMAIN items : UnitPriceOf(items[i]) = R(0)
  /\ statistics.averageUnitPrice = R(10)

\* the label an item is expected under
LabelOf(item) ==
  IF item.category \in {NoCategory, ""} THEN Uncategorized ELSE item.category

RECURSIVE SumPercentage(_)
SumPercentage(stats) ==
  IF stats = << >> THEN R(0)
  ELSE RAdd(Head(stats).percentage, SumPercentage(Tail(stats)))

RECURSIVE SumCostPercentage(_)
SumCostPercentage(stats) ==
  IF stats = << >> THEN R(0)
  ELSE RAdd(Head(stats).costPercentage, SumCostPercentage(Tail(stats)))

\* every item is counted once, in the bucket of its label
CountedOnce(stats) ==
  /\ \A i \in DOMAIN items : \E k \in DOMAIN stats : stats[k].category = LabelOf(items[i])
  /\ \A k, l \in DOMAIN stats : stats[k].category = stats[l].category => k = l
  /\ \A k \in DOMAIN stats :
        stats[k].count =
          Cardinality({i \in DOMAIN items : LabelOf(items[i]) = stats[k].category})

\* C11 as stated: for every non-empty collection each item is counted in
\* exactly one category (absent or empty category under the label for
\* uncategorized items), the percentages of count sum to 100 and the
\* percentages of cost sum to 100
C11_CategoryPercentages ==
  items # << >> =>
    /\ CountedOnce(categoryStatistics)
    /\ SumPercentage(categoryStatistics) = R(100)
    /\ SumCostPercentage(categoryStatistics) = R(100)

\* C11 amended: as stated, except that the percentages of cost sum to 100
\* when the total cost of the collection is > 0 and are all 0 when it is not
C11_CategoryPercentagesAmended ==
  items # << >> =>
    /\ CountedOnce(categoryStatistics)
    /\ SumPercentage(categoryStatistics) = R(100)
    /\ statistics.totalCost > 0 => SumCostPercentage(categoryStatistics) = R(100)
    /\ statistics.totalCost <= 0 =>
          \A k \in DOMAIN categoryStatistics :
             categoryStatistics[k].costPercentage = R(0)

\* C11 witness: an item with the empty category and cost next to a form item;
\* two buckets of 50 percent of the count each
C11_Witness ==
  /\ Len(items) = 2
  /\ \E i \in DOMAIN items : items[i].category = "" /\ items[i].totalCost > 0
  /\ Len(categoryStatistics) = 2
  /\ \A k \in DOMAIN categoryStatistics : categoryStatistics[k].percentage = R(50)
  /\ \E k \in DOMAIN categoryStatistics :
        categoryStatistics[k].category = Uncategorized

\* the items bought in a month (purchaseDate is a date string)
BoughtIn(month) == {i \in DOMAIN items : MonthOfDay(items[i].purchaseDate) = month}

\* C12: for every current date the 6-month trend series and the 12-month
\* heatmap series are the N consecutive calendar months that end at the
\* current month, in ascending order, and a month without items has a bucket
\* with amount 0 and count 0
C12_ConsecutiveMonths ==
  LET cur == LocalMonth(now, tz)
  IN  /\ Len(trendData) = 6
      /\ \A j \in 1..6 :
            /\ trendData[j].date = cur - (6 - j)
            /\ BoughtIn(cur - (6 - j)) = {} =>
                  trendData[j].cost = 0 /\ trendData[j].count = 0
      /\ Len(monthlyData) = 12
      /\ \A j \in 1..12 :
            /\ monthlyData[j].date = cur - (12 - j)
            /\ BoughtIn(cur - (12 - j)) = {} => monthlyData[j].amount = 0

\* C13: getMonthRange(year, month) is the first and the last calendar day of
\* the month whatever the UTC offset, also for month = 0 (December of the
\* year before); the monthly comparison compares [first day of the current
\* month, today] with [first day, last day] of the previous month
C13_MonthRange ==
  LET am == LocalMonth(now, tz)
      year == am \div 12
      month == am % 12
  IN  /\ getMonthRange(year, month + 1, tz) =
           [start |-> MonthStart[am], end |-> MonthStart[am + 1] - 1]
      /\ getMonthRange(year, month, tz) =
           [start |-> MonthStart[am - 1], end |-> MonthStart[am] - 1]
      /\ monthlyComparison.current =
           calculateMonthlyAllocatedCost(MonthStart[am], formatDate(now), items)
      /\ monthlyComparison.last =
           calculateMonthlyAllocatedCost(MonthStart[am - 1], MonthStart[am] - 1, items)

\* C14: an item whose usageDays is absent or <= 0 contributes 0 to the
\* allocated cost of the ranges of the monthly comparison, and the comparison
\* without the item has the same current and last
C14_NoWindowItems ==
  LET mc == monthlyComparison
      am == LocalMonth(now, tz)
      currentMonth == getMonthRange(am \div 12, (am % 12) + 1, tz)
      lastMonth == getMonthRange(am \div 12, am % 12, tz)
  IN  \A i \in DOMAIN items :
        ~HasWindow(items[i]) =>
          LET without == MonthlyComparison(Delete(items, items[i].id), now, tz)
          IN  /\ without.current = mc.current
              /\ without.last = mc.last
              /\ calculateMonthlyAllocatedCost(currentMonth.start, formatDate(now),
                                               <<items[i]>>) = R(0)
              /\ calculateMonthlyAllocatedCost(lastMonth.start, lastMonth.end,
                                               <<items[i]>>) = R(0)

\* C14 witness: an item without window that cost 300, bought in the current
\* range, next to an item that is allocated to the range
C14_Witness ==
  /\ \E i \in DOMAIN items :
        /\ ~HasWindow(items[i])
        /\ items[i].totalCost = 300
        /\ items[i].purchaseDate <= formatDate(now)
  /\ RPos(monthlyComparison.current)

AllZero(data) == \A j \in DOMAIN data : data[j].amount = 0

\* C15: for the empty collection the statistics are all 0, the monthly
\* comparison is current 0, last 0, growthRate 0, the category distribution
\* is empty and every trend and heatmap bucket has amount 0
C15_EmptyCollection ==
  items = << >> =>
    /\ statistics = [totalCost |-> 0, itemCount |-> 0, activeItems |-> 0,
                     finishedItems |-> 0, averageUnitPrice |-> R(0),
                     expiringItems |-> 0]
    /\ monthlyComparison = [current |-> R(0), last |-> R(0), growthRate |-> R(0)]
    /\ categoryStatistics = << >>
    /\ Len(trendData) = 6
    /\ \A j \in DOMAIN trendData : trendData[j].cost = 0 /\ trendData[j].count = 0
    /\ Len(dailyData) = 30 /\ AllZero(dailyData)
    /\ Len(monthlyData) = 12 /\ AllZero(monthlyData)

\* C15 witness: the collection is empty when the clock has reached its end
C15_Witness ==
  /\ items = << >>
  /\ now = NowEnd

\* range is the least and the greatest amount of the series
IsRangeOf(range, data) ==
  /\ \A j \in DOMAIN data : range.min <= data[j].amount /\ data[j].amount <= range.max
  /\ \E j \in DOMAIN data : data[j].amount = range.min
  /\ \E j \in DOMAIN data : data[j].amount = range.max

\* intensity is 0 for a flat range and the amount's place in the range otherwise
IsIntensityOf(intensity, amount, range) ==
  /\ range.max = range.min => intensity = R(0)
  /\ range.max # range.min =>
        RMul(intensity, R(range.max - range.min)) = R(amount - range.min)
  /\ intensity.n >= 0 /\ intensity.n <= intensity.d

\* C16: the series shown (30 days or 12 months) and the drill-down of the
\* selected month each use the least and greatest amount of their own series
\* as range; the intensity of a bucket is 0 when max = min and
\* (amount - min) / (max - min) otherwise, which lies in [0, 1]
C16_HeatmapRanges ==
  LET data == currentData
      range == amountRange
      cells == cellIntensity
      days == selectedMonthDays
      dayRange == selectedMonthAmountRange
      dayCells == dayIntensity
  IN  /\ IsRangeOf(range, data)
      /\ \A j \in DOMAIN data : IsIntensityOf(cells[j], data[j].amount, range)
      /\ drillDownShown =>
            /\ IsRangeOf(dayRange, days)
            /\ \A j \in DOMAIN days :
                  IsIntensityOf(dayCells[j], days[j].amount, dayRange)

\* C16 witness: the drill-down of a month whose bucket in the 12-month series
\* is greater than every amount of its days, with a day of intensity 1
C16_Witness ==
  LET range == amountRange
      dayRange == selectedMonthAmountRange
      dayCells == dayIntensity
  IN  /\ drillDownShown
      /\ range.max > dayRange.max
      /\ dayRange.max > dayRange.min
      /\ \E j \in DOMAIN dayCells : dayCells[j] = R(1)

RECURSIVE SumCosts(_)
SumCosts(S) ==
  IF S = {} THEN 0
  ELSE LET i == CHOOSE x \in S : TRUE
       IN  items[i].totalCost + SumCosts(S \ {i})

RECURSIVE SumAmounts(_)
SumAmounts(data) ==
  IF data = << >> THEN 0 ELSE Head(data).amount + SumAmounts(Tail(data))

\* C17: the drill-down of the selected month has one bucket per calendar day
\* of the month, in ascending order, each with the sum of totalCost of the
\* items bought on that day, so its amounts sum to the month's bucket of the
\* 12-month series; it is shown only in the monthly view with a month
\* selected, and a click on the selected month deselects it
C17_DrillDown ==
  /\ selectedMonth # None =>
        LET days == selectedMonthDays
            first == MonthStart[selectedMonth]
        IN  /\ Len(days) = MonthStart[selectedMonth + 1] - first
            /\ \A j \in DOMAIN days :
                  /\ days[j].date = first + (j - 1)
                  /\ days[j].amount =
                       SumCosts({i \in DOMAIN items : items[i].purchaseDate = days[j].date})
            /\ LET months == monthlyData
                   total == SumAmounts(days)
               IN  \A j \in DOMAIN months :
                     months[j].date = selectedMonth => total = months[j].amount
  /\ drillDownShown => viewMode = "monthly" /\ selectedMonthDays # << >>
  /\ selectedMonth = None => selectedMonthDays = << >>
  /\ (call.op = "onClick" /\ call.wasSelected) => selectedMonth = None
  /\ (call.op = "onClick" /\ call.viewMode = "monthly" /\ ~call.wasSelected) =>
        selectedMonth # None

\* C17 witness: the drill-down of a month with items on two days is shown,
\* after a click on a month that was not selected
C17_Witness ==
  LET days == selectedMonthDays
  IN  /\ drillDownShown
      /\ call.op = "onClick" /\ ~call.wasSelected
      /\ Cardinality({j \in DOMAIN days : days[j].amount > 0}) = 2
      /\ SumAmounts(days) = 600

\* C18: after restoreFromBackup returns true the current data are those of
\* the backup: the items and the reminders are exactly the backup's
C18_RestoreOverwrites ==
  (call.op = "restoreFromBackup" /\ call.result = TRUE) =>
     /\ items = call.data.items
     /\ reminders = call.data.reminders

\* C19: the list never holds more than 10 entries; a successful
\* createAutoBackup leaves the up to 9 most recent previous entries in their
\* order followed by the new entry; a null result leaves the list as it was
C19_BackupList ==
  /\ Len(backups) <= 10
  /\ call.op = "createAutoBackup" =>
        LET before == call.before
            n == Len(backups)
        IN  IF call.result # None
            THEN /\ n = Min({Len(before), 9}) + 1
                 /\ backups[n].filename = call.result
                 /\ backups[n].id = call.result
                 /\ \A k \in 1..(n - 1) :
                       backups[k] = before[Len(before) - (n - 1) + k]
            ELSE backups = before

\* C19 witness: a backup was taken when the list held 10 entries of more
\* than one instant, so that the oldest one went
C19_Witness ==
  /\ call.op = "createAutoBackup"
  /\ call.result # None
  /\ Len(call.before) = 10
  /\ call.before[1].id < call.before[10].id
  /\ Len(backups) = 10

\* C20: shouldRunAutoBackup is true when lastBackupDate is null, and
\* otherwise true exactly when at least 1 day (daily), 7 days (weekly) or 30
\* days (monthly) lie between lastBackupDate and now
C20_BackupFrequency ==
  call.op = "shouldRunAutoBackup" =>
     LET period == CASE call.frequency = "daily" -> 1
                     [] call.frequency = "weekly" -> 7
                     [] call.frequency = "monthly" -> 30
     IN  IF call.lastBackupDate = None THEN call.result = TRUE
         ELSE call.result = (call.now - call.lastBackupDate >= period * TicksPerDay)

\* C21: markReminderAsRead(id) sets read on the stored reminder with that id
\* and changes nothing else; with no such reminder the store is unchanged; it
\* resolves with no value
C21_MarkAsRead ==
  call.op = "markReminderAsRead" =>
     LET before == call.before
     IN  /\ call.result = None
         /\ Len(reminders) = Len(before)
         /\ \A k \in DOMAIN before :
               reminders[k] = IF before[k].id = call.id
                              THEN [before[k] EXCEPT !.read = TRUE]
                              ELSE before[k]

\* C21 witness: an unread reminder of a store of two unread reminders was marked
C21_Witness ==
  /\ call.op = "markReminderAsRead"
  /\ Len(call.before) = 2
  /\ \A k \in DOMAIN call.before : ~call.before[k].read
  /\ \E k \in DOMAIN call.before : call.before[k].id = call.id /\ reminders[k].read

\* C22: the store never holds two reminders of the same item and type
C22_Deduplicated ==
  \A j, k \in DOMAIN reminders :
     (reminders[j].itemId = reminders[k].itemId /\ reminders[j].type = reminders[k].type)
        => j = k

\* C23: a call made while no window is open invokes func at once with its
\* arguments and opens a window of delay; a call made while the window is open
\* invokes nothing; any two invocations of func are at least delay apart
C23_Throttle ==
  LET invocations == throttled.invocations
  IN  /\ (call.op = "throttled" /\ ~call.inProgress) =>
            /\ Len(invocations) = call.invoked + 1
            /\ invocations[Len(invocations)] = [at |-> call.at, args |-> call.args]
            /\ throttled.inProgress
            /\ throttled.timer = call.at + throttled.delay
      /\ (call.op = "throttled" /\ call.inProgress) =>
            Len(invocations) = call.invoked
      /\ \A j, k \in DOMAIN invocations :
            j < k => invocations[k].at - invocations[j].at >= throttled.delay

\* C24: a call of the debounced function invokes nothing by itself and
\* leaves its own timer as the only pending one; every invocation of func is
\* made delay after the last call before it, with that call's arguments, and
\* once only; when no timer is pending the last call has been served
C24_Debounce ==
  LET invocations == debounced.invocations
      calls == debounced.calls
  IN  /\ call.op = "debounced" =>
            /\ Len(invocations) = call.invoked
            /\ debounced.timers = {[id |-> Len(calls), due |-> call.at + debounced.delay,
                                    args |-> call.args]}
      /\ Cardinality(debounced.timers) <= 1
      /\ \A k \in DOMAIN invocations :
            /\ invocations[k].after \in DOMAIN calls
            /\ calls[invocations[k].after].args = invocations[k].args
            /\ invocations[k].at = calls[invocations[k].after].at + debounced.delay
            /\ \A j \in DOMAIN invocations : j < k => invocations[j].after < invocations[k].after
      /\ (debounced.timers = {} /\ calls # << >>) =>
            /\ invocations # << >>
            /\ invocations[Len(invocations)].after = Len(calls)

\* C24 witness: two bursts, the first of two calls with different arguments,
\* have been served
C24_Witness ==
  LET invocations == debounced.invocations
  IN  /\ Len(invocations) = 2
      /\ invocations[1].after = 2
      /\ debounced.calls[1].args # debounced.calls[2].args
      /\ invocations[2].after = 3
      /\ debounced.timers = {}

\* C25: the detail view is never shown with no item selected
C25_DetailHasItem == currentView = "detail" => selectedItem # NoItem

\* C26: when handleEditItem has completed and the detail view is shown,
\* selectedItem is the stored item of that id
C26_SelectedIsStored ==
  (call.op = "handleEditItem" /\ currentView = "detail" /\ selectedItem.id = call.id) =>
     \E i \in DOMAIN items : items[i] = selectedItem

\* C27: loadTheme reads at most 3 times; Preferences.set is issued only when
\* the theme is marked as loaded; and the set that follows the load does not
\* put the default theme over a stored theme that has not been read
C27_LoadBeforeSave ==
  /\ loadTheme.attempts <= 3
  /\ call.op = "Preferences.set" => call.loaded
  /\ (call.op = "Preferences.set" /\ call.cause = "loadTheme" /\ call.ok
        /\ call.before # NoTheme /\ call.before # call.value /\ call.value = "system")
        => call.read

\* C28: once the hook runs, resolvedTheme is the system's scheme while the
\* theme is 'system', and the theme itself while it is 'light' or 'dark'
C28_ResolvedTheme ==
  loadTheme.started => resolvedTheme = ResolveTheme(themeState, prefersDark)

\* C29: statistics.expiringItems of a collection counts the items for which
\* isItemExpiring(item, 3) is true, with and without a time of day in
\* purchaseDate
C29_SameCriterion ==
  call.op = "expiringItems" =>
     call.expiringItems = IF call.isItemExpiring THEN 1 ELSE 0

\* C30: after saveSettings(s), getSettings returns s; with nothing saved it
\* returns the default settings
C30_ReadAfterWrite ==
  /\ call.op = "saveSettings" => getSettings = call.settings
  /\ settings = << >> => getSettings = getDefaultSettings

====
